---- MODULE Spec2Model ----
(***************************************************************************)
(* Targetify: the TargetTracker component (target collection mirrored to   *)
(* localStorage) modelled as a state machine.                              *)
(*                                                                         *)
(* React scheduling is modelled by pc:                                     *)
(*   "loadEffect"  the first render is committed (targets = [], newTarget  *)
(*                 = ''), the mount effects have not run yet;              *)
(*   "saveEffect"  a render with a new targets array is committed and the  *)
(*                 save effect of that render has not run yet;             *)
(*   "render"      an effect called setTargets, the re-render that commits *)
(*                 the queued value has not happened yet;                  *)
(*   "idle"        nothing is pending, the user can act.                   *)
(* An event handler and the re-render its state updates cause form one     *)
(* step (React commits the updates of a discrete event before the next     *)
(* event is delivered); effects are separate callbacks and separate steps. *)
(*                                                                         *)
(* The handlers are modelled as the functions they are: toggleTarget and   *)
(* deleteTarget take any id, present or not, and clearCompleted can run    *)
(* with nothing completed, although the rendered controls only pass ids of *)
(* rendered items and disable the Clear button then.  A write to           *)
(* localStorage succeeds or throws (quota exceeded, storage disabled), the *)
(* choice is the environment's at every write.  The text of an item is a   *)
(* sequence of characters, its id the decimal string of the clock value,   *)
(* its createdAt the time value of the Date; in storage createdAt is the   *)
(* ISO string of that time.                                                *)
(***************************************************************************)
EXTENDS Integers, Sequences, FiniteSets, TLC

VARIABLES
  targets,    \* useState<Target[]>: the committed collection
  newTarget,  \* useState(''): the pending input value
  storage,    \* localStorage.getItem('dailyTargets')
  pc,         \* what React has pending
  queued,     \* <<v>> when the load effect called setTargets(v), else << >>
  toasts,     \* the notifications the last step passed to toast()
  now,        \* Date.now()
  last,       \* the last step taken: operation, id argument, input, outcome
  before,     \* targets as the last step found it
  saveOk,     \* the last run of the save effect returned without throwing
  persisted,  \* <<C>> when storage holds what the save effect wrote for C
  \* InstallPrompt
  installPrompt,  \* useState(null): the retained event, NoHandle for null
  showPrompt,     \* useState(false)
  banner,         \* the component renders the banner (not null)
  signals,        \* beforeinstallprompt events the platform has dispatched
  prevented,      \* the events on which preventDefault() was called
  prompts,        \* per event, the prompt() calls made on it
  choice,         \* per event, its userChoice promise: pending or the outcome
  calls,          \* the handleInstall invocations suspended at an await
  ilast           \* the last step of InstallPrompt: step, event, outcome

\* the state of TargetTracker and of InstallPrompt; the two components share
\* none, so each is explored with the other at rest
tvars == <<targets, newTarget, storage, pc, queued, toasts, now, last, before,
           saveOk, persisted>>
ivars == <<installPrompt, showPrompt, banner, signals, prevented, prompts,
           choice, calls, ilast>>
vars == <<tvars, ivars>>

(* ----------------------------- bounds --------------------------------- *)

\* largest value of the millisecond clock
MaxClock == 1
\* add is not offered once the collection holds this many items
MaxTargets == 3

\* the texts the user leaves in the input: '', a blank, 'a' and ' a '
Inputs == {<<>>, <<" ">>, <<"a">>, <<" ", "a", " ">>}

(* -------------------------- pure functions ----------------------------- *)

IsSpace(c) == c = " "

RECURSIVE TrimStart(_)
TrimStart(s) ==
  IF s # <<>> /\ IsSpace(Head(s)) THEN TrimStart(Tail(s)) ELSE s

RECURSIVE TrimEnd(_)
TrimEnd(s) ==
  IF s # <<>> /\ IsSpace(s[Len(s)]) THEN TrimEnd(SubSeq(s, 1, Len(s) - 1)) ELSE s

\* trim() forgotten: the input is taken as typed
TrimMutant(s) == s

\* String.prototype.trim
Trim(s) == TrimEnd(TrimStart(s))

\* a string is falsy exactly when it is empty
Falsy(s) == s = <<>>

\* the text deleteTarget interpolates when find() returned undefined
Undefined == <<"undefined">>

(* ------------------------------- toasts -------------------------------- *)

Toast(title, text, count, variant) ==
  [title |-> title, text |-> text, count |-> count, variant |-> variant]

LoadErrorToast == Toast("Error: Could not load your saved targets.", <<>>, 0, "destructive")
SaveErrorToast == Toast("Error: Could not save your targets.", <<>>, 0, "destructive")
EmptyTargetToast == Toast("Empty Target", <<>>, 0, "destructive")
TargetAddedToast(text) == Toast("Target Added!", text, 0, "default")
TargetRemovedToast(text) == Toast("Target Removed", text, 0, "destructive")
NothingToClearToast == Toast("Nothing to Clear", <<>>, 0, "default")
ClearedToast(n) == Toast("Completed Targets Cleared", <<>>, n, "default")

(* --------------------------- Target records ---------------------------- *)

\* interface Target; createdAt is the Date's time value in milliseconds
NewTargetRecord(id, text, createdAt) ==
  [id |-> id, text |-> text, completed |-> FALSE, createdAt |-> createdAt]

\* Date.now().toString()
IdOf(ms) == ToString(ms)

Ids == {IdOf(ms) : ms \in 0..MaxClock}

(* ---------------------- serialization (JSON, Date) --------------------- *)

\* the time value of an Invalid Date (NaN), as new Date(undefined) yields
InvalidDate == -1

\* Date.prototype.toJSON: the ISO-8601 string of the time value, null for an
\* Invalid Date
DateToJSON(d) ==
  IF d = InvalidDate THEN [type |-> "null", iso |-> 0]
  ELSE [type |-> "string", iso |-> d]

\* the stored time is not read back: every item gets the epoch
NewDateMutant(v) == 0

\* the createdAt of a stored object that has no such field
Missing == [type |-> "undefined", iso |-> 0]

\* new Date(v) for a value read back from JSON: an ISO string parses to its
\* time value, null converts to 0, undefined gives an Invalid Date
NewDate(v) ==
  IF v.type = "string" THEN v.iso
  ELSE IF v.type = "null" THEN 0
  ELSE InvalidDate

\* the completed flag is not written
TargetToJSONMutant(t) ==
  [id |-> t.id, text |-> t.text, completed |-> FALSE,
   createdAt |-> DateToJSON(t.createdAt)]

\* JSON.stringify of one Target
TargetToJSON(t) ==
  [id |-> t.id, text |-> t.text, completed |-> t.completed,
   createdAt |-> DateToJSON(t.createdAt)]

\* values of localStorage.getItem('dailyTargets')
NoEntry == [kind |-> "null", value |-> <<>>]
EmptyString == [kind |-> "empty", value |-> <<>>]
\* a text JSON.parse rejects (SyntaxError)
Unparseable == [kind |-> "garbage", value |-> <<>>]
\* a text that parses to something without a map method ("{}", "7", "null")
NonArray == [kind |-> "object", value |-> <<>>]
ArrayText(items) == [kind |-> "array", value |-> items]

\* JSON.stringify(targets)
JSONstringify(ts) == ArrayText([i \in 1..Len(ts) |-> TargetToJSON(ts[i])])

\* if (savedTargets)
Truthy(saved) == saved.kind \notin {"null", "empty"}

\* an empty catch block: the failure is swallowed
SaveCatchMutant == <<>>

\* catch (error) of the save effect: the notification it emits
SaveCatch == <<SaveErrorToast>>

\* JSON.parse(savedTargets) or parsed.map(...) throws
LoadThrows(saved) == saved.kind \in {"garbage", "object"}

\* { ...t, createdAt: new Date(t.createdAt) }
Rehydrate(t) ==
  [id |-> t.id, text |-> t.text, completed |-> t.completed,
   createdAt |-> NewDate(t.createdAt)]

\* parsed.map(t => ({ ...t, createdAt: new Date(t.createdAt) }))
ParseAndMap(saved) == [i \in 1..Len(saved.value) |-> Rehydrate(saved.value[i])]

(* --------------------------- list operations --------------------------- *)

\* the new item is appended instead of prepended
PrependMutant(target, prev) == prev \o <<target>>

\* prev => [target, ...prev]
Prepend(target, prev) == <<target>> \o prev

\* the matching item is marked completed instead of flipped
ToggledMutant(prev, id) ==
  [i \in 1..Len(prev) |->
     IF prev[i].id = id THEN [prev[i] EXCEPT !.completed = TRUE]
     ELSE prev[i]]

\* prev.map(target => target.id === id ? {...target, completed: !target.completed} : target)
Toggled(prev, id) ==
  [i \in 1..Len(prev) |->
     IF prev[i].id = id THEN [prev[i] EXCEPT !.completed = ~prev[i].completed]
     ELSE prev[i]]

\* Array.prototype.filter is SelectSeq: the kept elements, in their order

\* prev.filter(target => target.id !== id)
Deleted(prev, id) == LET Keep(t) == t.id # id IN SelectSeq(prev, Keep)

\* the filter predicate inverted: the completed items are the ones kept
ClearedMutant(prev) == LET Keep(t) == t.completed IN SelectSeq(prev, Keep)

\* prev.filter(target => !target.completed)
Cleared(prev) == LET Keep(t) == ~t.completed IN SelectSeq(prev, Keep)

\* every item is counted, completed or not
CompletedCountMutant(ts) == Len(ts)

\* targets.filter(t => t.completed).length
CompletedCount(ts) == LET Keep(t) == t.completed IN Len(SelectSeq(ts, Keep))

\* Math.floor in place of Math.round
RoundedPercentMutant(completed, total) == (100 * completed) \div total

\* Math.round((completed / total) * 100): the nearest integer, a half goes
\* up; with at most a handful of items the double arithmetic is exact enough
\* never to change which integer that is
RoundedPercent(completed, total) == (200 * completed + total) \div (2 * total)

\* useMemo(() => {...}, [targets]): completedCount, totalCount and
\* completionPercentage
Summary(ts) ==
  LET completed == CompletedCount(ts)
      total == Len(ts)
      percentage == IF total > 0 THEN RoundedPercent(completed, total) ELSE 0
  IN  [completedCount |-> completed, totalCount |-> total,
       completionPercentage |-> percentage]

\* targets.find(t => t.id === id)?.text
FindText(ts, id) ==
  IF \E i \in 1..Len(ts) : ts[i].id = id
  THEN ts[CHOOSE i \in 1..Len(ts) :
            ts[i].id = id /\ \A j \in 1..(i - 1) : ts[j].id # id].text
  ELSE Undefined

(* ---------------------------- InstallPrompt ---------------------------- *)

\* beforeinstallprompt events the platform dispatches at most
MaxSignals == 2
\* prompt() calls made at most, on all events together
MaxPrompts == 2

\* useState<BeforeInstallPromptEvent | null>(null)
NoHandle == 0

Handles == 1..MaxSignals

IOp(op, handle, outcome) == [op |-> op, handle |-> handle, outcome |-> outcome]

InstallInit ==
  /\ installPrompt = NoHandle
  /\ showPrompt = FALSE
  /\ banner = FALSE
  /\ signals = 0
  /\ prevented = {}
  /\ prompts = [h \in Handles |-> 0]
  /\ choice = [h \in Handles |-> "pending"]
  /\ calls = <<>>
  /\ ilast = IOp("mount", NoHandle, "none")

(* ------------------------------ the state ------------------------------ *)

Op(op, id, input, ok) == [op |-> op, id |-> id, input |-> input, ok |-> ok]

\* what localStorage can hold when the page is first opened
InitialStorage == {NoEntry, EmptyString, Unparseable, NonArray, ArrayText(<<>>)}

Init ==
  /\ targets = <<>>
  /\ newTarget = <<>>
  /\ storage \in InitialStorage
  /\ pc = "loadEffect"
  /\ queued = <<>>
  /\ toasts = <<>>
  /\ now = 0
  /\ last = Op("mount", "", <<>>, TRUE)
  /\ before = <<>>
  /\ saveOk = TRUE
  /\ persisted = <<>>
  /\ InstallInit

\* useEffect(() => {...}, [toast]): the load effect, run once after mount
LoadEffect ==
  /\ pc = "loadEffect"
  /\ IF Truthy(storage)
     THEN IF LoadThrows(storage)
          THEN /\ toasts' = <<LoadErrorToast>>
               /\ queued' = <<>>
          ELSE /\ toasts' = <<>>
               /\ queued' = <<ParseAndMap(storage)>>
     ELSE /\ toasts' = <<>>
          /\ queued' = <<>>
  /\ pc' = "saveEffect"
  /\ last' = Op("load", "", <<>>, ~(Truthy(storage) /\ LoadThrows(storage)))
  /\ before' = targets
  /\ UNCHANGED <<targets, newTarget, storage, now, saveOk, persisted>>
  /\ UNCHANGED ivars

\* useEffect(() => {...}, [targets, toast]): the save effect, run after every
\* render that committed a new targets array; setItem succeeds or throws
SaveEffect ==
  /\ pc = "saveEffect"
  /\ \E ok \in BOOLEAN :
       /\ IF ok
          THEN /\ storage' = JSONstringify(targets)
               /\ persisted' = <<targets>>
               /\ toasts' = <<>>
          ELSE /\ UNCHANGED <<storage, persisted>>
               /\ toasts' = SaveCatch
       /\ last' = Op("save", "", <<>>, ok)
       /\ saveOk' = ok
  /\ pc' = IF queued # <<>> THEN "render" ELSE "idle"
  /\ before' = targets
  /\ UNCHANGED <<targets, newTarget, queued, now>>
  /\ UNCHANGED ivars

\* the re-render that commits the value the load effect passed to setTargets
Render ==
  /\ pc = "render"
  /\ targets' = queued[1]
  /\ queued' = <<>>
  /\ pc' = "saveEffect"
  /\ toasts' = <<>>
  /\ last' = Op("render", "", <<>>, TRUE)
  /\ before' = targets
  /\ UNCHANGED <<newTarget, storage, now, saveOk, persisted>>
  /\ UNCHANGED ivars

\* onChange={(e) => setNewTarget(e.target.value)}
SetNewTarget(s) ==
  /\ pc = "idle"
  /\ s # newTarget
  /\ newTarget' = s
  /\ toasts' = <<>>
  /\ last' = Op("input", "", s, TRUE)
  /\ before' = targets
  /\ UNCHANGED <<targets, storage, pc, queued, now, saveOk, persisted>>
  /\ UNCHANGED ivars

\* addTarget; Date.now() and new Date() read the clock in the same millisecond
AddTarget ==
  /\ pc = "idle"
  /\ IF Falsy(Trim(newTarget))
     THEN /\ toasts' = <<EmptyTargetToast>>
          /\ last' = Op("add", "", newTarget, FALSE)
          /\ UNCHANGED <<targets, newTarget, pc, now>>
     ELSE /\ Len(targets) < MaxTargets
          /\ LET target == NewTargetRecord(IdOf(now), Trim(newTarget), now)
             IN  /\ targets' = Prepend(target, targets)
                 /\ toasts' = <<TargetAddedToast(target.text)>>
                 /\ last' = Op("add", target.id, newTarget, TRUE)
          /\ newTarget' = <<>>
          /\ pc' = "saveEffect"
          /\ now' = now
  /\ before' = targets
  /\ UNCHANGED <<storage, queued, saveOk, persisted>>
  /\ UNCHANGED ivars

\* toggleTarget(id)
ToggleTarget(id) ==
  /\ pc = "idle"
  /\ targets' = Toggled(targets, id)
  /\ pc' = "saveEffect"
  /\ toasts' = <<>>
  /\ last' = Op("toggle", id, <<>>, TRUE)
  /\ before' = targets
  /\ UNCHANGED <<newTarget, storage, queued, now, saveOk, persisted>>
  /\ UNCHANGED ivars

\* deleteTarget(id)
DeleteTarget(id) ==
  /\ pc = "idle"
  /\ LET targetText == FindText(targets, id)
     IN  toasts' = <<TargetRemovedToast(targetText)>>
  /\ targets' = Deleted(targets, id)
  /\ pc' = "saveEffect"
  /\ last' = Op("delete", id, <<>>, TRUE)
  /\ before' = targets
  /\ UNCHANGED <<newTarget, storage, queued, now, saveOk, persisted>>
  /\ UNCHANGED ivars

\* clearCompleted
ClearCompleted ==
  /\ pc = "idle"
  /\ LET completedCount == CompletedCount(targets)
     IN  IF completedCount = 0
         THEN /\ toasts' = <<NothingToClearToast>>
              /\ last' = Op("clear", "", <<>>, FALSE)
              /\ UNCHANGED <<targets, pc>>
         ELSE /\ targets' = Cleared(targets)
              /\ toasts' = <<ClearedToast(completedCount)>>
              /\ last' = Op("clear", "", <<>>, TRUE)
              /\ pc' = "saveEffect"
  /\ before' = targets
  /\ UNCHANGED <<newTarget, storage, queued, now, saveOk, persisted>>
  /\ UNCHANGED ivars

\* the millisecond clock advances; only addTarget reads it, so the model lets
\* it advance between events only
Tick ==
  /\ pc = "idle"
  /\ now < MaxClock
  /\ now' = now + 1
  /\ UNCHANGED <<targets, newTarget, storage, pc, queued, toasts, last, before, saveOk, persisted>>
  /\ UNCHANGED ivars

\* the page is closed and opened again: component state is rebuilt by
\* useState([]) and useState(''), localStorage survives
Reload ==
  /\ targets' = <<>>
  /\ newTarget' = <<>>
  /\ queued' = <<>>
  /\ pc' = "loadEffect"
  /\ toasts' = <<>>
  /\ last' = Op("mount", "", <<>>, TRUE)
  /\ before' = <<>>
  /\ UNCHANGED <<storage, now, saveOk, persisted>>
  /\ UNCHANGED ivars

Next ==
  \/ LoadEffect
  \/ SaveEffect
  \/ Render
  \/ \E s \in Inputs : SetNewTarget(s)
  \/ AddTarget
  \/ \E id \in Ids : ToggleTarget(id)
  \/ \E id \in Ids : DeleteTarget(id)
  \/ ClearCompleted
  \/ Tick
  \/ Reload

Spec == Init /\ [][Next]_vars

(* ------------------------ InstallPrompt at work ------------------------ *)

\* the banner is shown on any retained event, the show flag ignored
RenderedMutant(show, handle) == handle # NoHandle

\* if (!showPrompt || !installPrompt) return null; otherwise the banner
Rendered(show, handle) == ~(~show \/ handle = NoHandle)

\* the state is cleared on any outcome
OutcomeAcceptedMutant(outcome) == TRUE

\* if (outcome === 'accepted')
OutcomeAccepted(outcome) == outcome = "accepted"

\* the prompt() calls made so far on the events 1..h
RECURSIVE PromptsUpTo(_)
PromptsUpTo(h) == IF h = 0 THEN 0 ELSE prompts[h] + PromptsUpTo(h - 1)

\* calls without its i-th invocation
Finished(i) == SubSeq(calls, 1, i - 1) \o SubSeq(calls, i + 1, Len(calls))

\* handleBeforeInstallPrompt(e): the platform dispatches a new event
HandleBeforeInstallPrompt ==
  /\ signals < MaxSignals
  /\ LET e == signals + 1
     IN  /\ signals' = e
         /\ prevented' = prevented \cup {e}
         /\ installPrompt' = e
         /\ showPrompt' = TRUE
         /\ banner' = Rendered(TRUE, e)
         /\ ilast' = IOp("signal", e, "none")
  /\ UNCHANGED <<prompts, choice, calls>>
  /\ UNCHANGED tvars

\* handleInstall up to its first await: the Install button of the banner is
\* clicked, prompt() is called on the retained event
HandleInstall ==
  /\ banner
  /\ IF installPrompt = NoHandle
     THEN /\ ilast' = IOp("install", NoHandle, "none")
          /\ UNCHANGED <<prompts, calls>>
     ELSE /\ PromptsUpTo(MaxSignals) < MaxPrompts
          /\ prompts' = [prompts EXCEPT ![installPrompt] = @ + 1]
          /\ calls' = Append(calls, [handle |-> installPrompt, at |-> "prompt"])
          /\ ilast' = IOp("install", installPrompt, "none")
  /\ UNCHANGED <<installPrompt, showPrompt, banner, signals, prevented, choice>>
  /\ UNCHANGED tvars

\* await installPrompt.prompt(): the platform settles the promise; it may
\* reject a prompt() that was not the first on its event, and the
\* invocation then ends there
PromptSettles(i, resolved) ==
  /\ i \in 1..Len(calls)
  /\ calls[i].at = "prompt"
  /\ IF resolved
     THEN calls' = [calls EXCEPT ![i].at = "choice"]
     ELSE /\ prompts[calls[i].handle] > 1
          /\ calls' = Finished(i)
  /\ ilast' = IOp(IF resolved THEN "prompted" ELSE "rejected", calls[i].handle, "none")
  /\ UNCHANGED <<installPrompt, showPrompt, banner, signals, prevented, prompts, choice>>
  /\ UNCHANGED tvars

\* the user answers the platform's dialog: userChoice of the event resolves
UserChooses(h, outcome) ==
  /\ prompts[h] > 0
  /\ choice[h] = "pending"
  /\ choice' = [choice EXCEPT ![h] = outcome]
  /\ ilast' = IOp("chosen", h, outcome)
  /\ UNCHANGED <<installPrompt, showPrompt, banner, signals, prevented, prompts, calls>>
  /\ UNCHANGED tvars

\* handleInstall after await installPrompt.userChoice
InstallOutcome(i) ==
  /\ i \in 1..Len(calls)
  /\ calls[i].at = "choice"
  /\ choice[calls[i].handle] # "pending"
  /\ LET outcome == choice[calls[i].handle]
     IN  /\ IF OutcomeAccepted(outcome)
            THEN /\ showPrompt' = FALSE
                 /\ installPrompt' = NoHandle
            ELSE UNCHANGED <<showPrompt, installPrompt>>
         /\ ilast' = IOp("outcome", calls[i].handle, outcome)
  /\ banner' = Rendered(showPrompt', installPrompt')
  /\ calls' = Finished(i)
  /\ UNCHANGED <<signals, prevented, prompts, choice>>
  /\ UNCHANGED tvars

\* handleDismiss: the close control of the banner is clicked
HandleDismiss ==
  /\ banner
  /\ showPrompt' = FALSE
  /\ banner' = Rendered(FALSE, installPrompt)
  /\ ilast' = IOp("dismiss", installPrompt, "none")
  /\ UNCHANGED <<installPrompt, signals, prevented, prompts, choice, calls>>
  /\ UNCHANGED tvars

InitInstall == Init /\ storage = NoEntry

NextInstall ==
  \/ HandleBeforeInstallPrompt
  \/ HandleInstall
  \/ \E i \in 1..MaxPrompts : \E resolved \in BOOLEAN :
       PromptSettles(i, resolved)
  \/ \E h \in Handles : \E outcome \in {"accepted", "dismissed"} :
       UserChooses(h, outcome)
  \/ \E i \in 1..MaxPrompts : InstallOutcome(i)
  \/ HandleDismiss

SpecInstall == InitInstall /\ [][NextInstall]_vars

(* ------------------ a session with a longer collection ----------------- *)

\* most items of a collection the summary is computed for
SummaryMax == 4

SummaryIds == {IdOf(ms) : ms \in 0..(SummaryMax - 1)}

\* the collections n adds at the clock values 0..n-1 and any toggles leave
Collections(n) ==
  {[i \in 1..n |-> [id |-> IdOf(n - i), text |-> <<"a">>, completed |-> done[i],
                    createdAt |-> n - i]] : done \in [1..n -> BOOLEAN]}

\* the page is idle with such a collection, saved
InitSummary ==
  /\ \E n \in 0..SummaryMax :
       /\ targets \in Collections(n)
       /\ now = n
  /\ newTarget = <<>>
  /\ storage = JSONstringify(targets)
  /\ pc = "idle"
  /\ queued = <<>>
  /\ toasts = <<>>
  /\ last = Op("save", "", <<>>, TRUE)
  /\ before = targets
  /\ saveOk = TRUE
  /\ persisted = <<targets>>
  /\ InstallInit

NextSummary ==
  \/ \E id \in SummaryIds : ToggleTarget(id)
  \/ \E id \in SummaryIds : DeleteTarget(id)
  \/ ClearCompleted
  \/ SaveEffect

SpecSummary == InitSummary /\ [][NextSummary]_vars

(* ------------- storage left by something else than this page ----------- *)

\* [{"id":"0","text":"a","completed":false}]: an array whose element has no
\* createdAt field
LacksCreatedAt ==
  ArrayText(<<[id |-> IdOf(0), text |-> <<"a">>, completed |-> FALSE,
               createdAt |-> Missing]>>)

\* [{"id":"0","text":" ","completed":false,"createdAt":"1970-01-01T00:00:00.000Z"}]:
\* an array whose element has every field, the text a blank
BlankText ==
  ArrayText(<<[id |-> IdOf(0), text |-> <<" ">>, completed |-> FALSE,
               createdAt |-> DateToJSON(0)]>>)

\* what localStorage can hold when the entry was not written by this page
ForeignStorage == {Unparseable, NonArray, LacksCreatedAt, BlankText}

InitStored ==
  /\ targets = <<>>
  /\ newTarget = <<>>
  /\ storage \in ForeignStorage
  /\ pc = "loadEffect"
  /\ queued = <<>>
  /\ toasts = <<>>
  /\ now = 0
  /\ last = Op("mount", "", <<>>, TRUE)
  /\ before = <<>>
  /\ saveOk = TRUE
  /\ persisted = <<>>
  /\ InstallInit

SpecStored == InitStored /\ [][Next]_vars

(* ====================== properties of the collection ==================== *)

HasId(ts, id) == \E i \in 1..Len(ts) : ts[i].id = id

\* s consists of blanks only (the empty string included)
Blank(s) == \A i \in 1..Len(s) : s[i] = " "

\* t is s without its leading and trailing blanks
IsTrimOf(t, s) ==
  /\ t # <<>> => t[1] # " " /\ t[Len(t)] # " "
  /\ \E i \in 0..Len(s) : \E j \in i..Len(s) :
       /\ t = SubSeq(s, i + 1, j)
       /\ Blank(SubSeq(s, 1, i))
       /\ Blank(SubSeq(s, j + 1, Len(s)))

(* C1: in every reachable state no two items of the collection have the   *)
(* same id.                                                                *)
C1_UniqueIds ==
  \A i, j \in 1..Len(targets) : i # j => targets[i].id # targets[j].id

(* C2: an add whose trimmed input is non-empty is never rejected; it makes *)
(* the collection one longer, the new item is first, not completed, its    *)
(* text is the trimmed input, and the previous items follow it unchanged   *)
(* and in their previous order.                                            *)
C2_AddPrepends ==
  last.op = "add" =>
    IF Blank(last.input)
    THEN ~last.ok
    ELSE /\ last.ok
         /\ Len(targets) = Len(before) + 1
         /\ targets[1].completed = FALSE
         /\ IsTrimOf(targets[1].text, last.input)
         /\ \A i \in 1..Len(before) : targets[i + 1] = before[i]

C2_Witness ==
  /\ last.op = "add"
  /\ last.ok
  /\ last.input = <<" ", "a", " ">>
  /\ Len(before) = 2
  /\ before[1] # before[2]

(* C3: an add whose input is empty or all blanks leaves the collection,    *)
(* the storage and the pending input as they were, triggers no save effect *)
(* and emits the "Empty Target" notification, and nothing else.            *)
C3_EmptyAddRejected ==
  [][(last'.op = "add" /\ Blank(last'.input)) =>
       /\ targets' = targets
       /\ storage' = storage
       /\ newTarget' = newTarget
       /\ newTarget' = last'.input
       /\ pc = "idle" /\ pc' = "idle"
       /\ toasts' = <<EmptyTargetToast>>]_vars

C3_Witness ==
  /\ last.op = "add"
  /\ ~last.ok
  /\ last.input = <<" ">>
  /\ targets # <<>>
  /\ toasts = <<EmptyTargetToast>>

\* s without its i-th element
Without(s, i) == SubSeq(s, 1, i - 1) \o SubSeq(s, i + 1, Len(s))

Flipped(t) == [t EXCEPT !.completed = ~t.completed]

(* C4: toggle(id) flips the completed flag of exactly one item, the one    *)
(* matching id, and leaves every other item unchanged and in place; with   *)
(* an id that is not in the collection it leaves the collection unchanged. *)
C4_ToggleFlipsExactlyOne ==
  last.op = "toggle" =>
    IF HasId(before, last.id)
    THEN /\ Len(targets) = Len(before)
         /\ \E i \in 1..Len(before) :
              /\ before[i].id = last.id
              /\ targets[i] = Flipped(before[i])
              /\ \A j \in 1..Len(before) : j # i => targets[j] = before[j]
    ELSE targets = before

(* C5: delete(id) removes exactly the one item matching id, so the length  *)
(* drops by exactly 1, and leaves the others unchanged in their order;     *)
(* with an id that is not in the collection it leaves the collection       *)
(* unchanged.                                                              *)
C5_DeleteRemovesExactlyOne ==
  last.op = "delete" =>
    IF HasId(before, last.id)
    THEN /\ Len(targets) = Len(before) - 1
         /\ \E i \in 1..Len(before) :
              /\ before[i].id = last.id
              /\ targets = Without(before, i)
    ELSE targets = before

NoneCompleted(ts) == \A i \in 1..Len(ts) : ~ts[i].completed

(* C6: clearCompleted on a collection with no completed item leaves the    *)
(* collection unchanged, triggers no save effect and writes nothing to     *)
(* storage, and emits the "Nothing to Clear" notification and no other.    *)
C6_ClearNothing ==
  [][(last'.op = "clear" /\ NoneCompleted(targets)) =>
       /\ targets' = targets
       /\ storage' = storage
       /\ pc = "idle" /\ pc' = "idle"
       /\ toasts' = <<NothingToClearToast>>
       /\ toasts'[1].variant = "default"]_vars

C6_Witness ==
  /\ last.op = "clear"
  /\ ~last.ok
  /\ Len(targets) = 2
  /\ NoneCompleted(targets)
  /\ toasts = <<NothingToClearToast>>

\* the positions of the items of ts that are not completed
Open(ts) == {i \in 1..Len(ts) : ~ts[i].completed}

(* C7: clearCompleted on a collection with k > 0 completed items leaves    *)
(* exactly the items that were not completed, unchanged and in their       *)
(* order, so none is completed afterwards, and its notification reports k. *)
C7_ClearRemovesCompleted ==
  last.op = "clear" =>
    LET k == Len(before) - Cardinality(Open(before))
    IN  IF k = 0
        THEN ~last.ok
        ELSE /\ last.ok
             /\ NoneCompleted(targets)
             /\ Len(targets) = Len(before) - k
             /\ \A i \in Open(before) :
                  targets[Cardinality({j \in Open(before) : j <= i})] = before[i]
             /\ toasts = <<ClearedToast(k)>>
             /\ pc = "saveEffect"

C7_Witness ==
  /\ last.op = "clear"
  /\ last.ok
  /\ Len(before) = 3
  /\ Len(targets) = 2
  /\ before[2].completed
  /\ targets[1] # targets[2]

(* ======================= properties of persistence ====================== *)

\* st is the text JSON.stringify produces for ts: an array with one object
\* per item, in order, createdAt as the ISO string of the item's time
IsSerializationOf(st, ts) ==
  /\ st.kind = "array"
  /\ Len(st.value) = Len(ts)
  /\ \A i \in 1..Len(ts) :
       /\ DOMAIN st.value[i] = {"id", "text", "completed", "createdAt"}
       /\ st.value[i].id = ts[i].id
       /\ st.value[i].text = ts[i].text
       /\ st.value[i].completed = ts[i].completed
       /\ st.value[i].createdAt = [type |-> "string", iso |-> ts[i].createdAt]

\* the last step changed the collection through setTargets
Mutated ==
  \/ last.op \in {"toggle", "delete"}
  \/ last.op \in {"add", "clear"} /\ last.ok

(* C8: every mutation leaves a save effect pending, and whenever nothing   *)
(* is pending and the last write succeeded, storage holds the              *)
(* serialization of the whole in-memory collection.                        *)
C8_StorageMirrorsMemory ==
  /\ Mutated => pc = "saveEffect"
  /\ (pc = "idle" /\ saveOk) => IsSerializationOf(storage, targets)

C8_Witness ==
  /\ pc = "idle"
  /\ saveOk
  /\ last.op = "save"
  /\ Len(targets) = 2
  /\ targets[1].completed
  /\ ~targets[2].completed
  /\ IsSerializationOf(storage, targets)

(* C9: a save effect whose write throws leaves the in-memory collection,   *)
(* the input and the storage as they were, emits the save-error            *)
(* notification, and ends normally: React goes on with what was pending,   *)
(* and the handlers are available again once nothing is.                   *)
C9_SaveFailureKeepsMemory ==
  [][(last'.op = "save" /\ ~last'.ok) =>
       /\ targets' = targets
       /\ newTarget' = newTarget
       /\ storage' = storage
       /\ queued' = queued
       /\ toasts' = <<SaveErrorToast>>
       /\ toasts'[1].variant = "destructive"
       /\ pc' = IF queued = <<>> THEN "idle" ELSE "render"]_vars

C9_Witness ==
  /\ last.op = "save"
  /\ ~last.ok
  /\ pc = "idle"
  /\ Len(targets) = 2
  /\ storage = NoEntry
  /\ toasts = <<SaveErrorToast>>

\* load(persist(C)) = C: the load effect passes to setTargets the collection
\* the save effect wrote, and the re-render commits it
RoundTripStep ==
  /\ (last'.op = "load" /\ persisted # <<>>) => queued' = persisted
  /\ (last'.op = "render") => targets' = queued[1]

\* the page is starting and found no entry under the key
StartingWithNoEntry ==
  /\ storage = NoEntry
  /\ \/ pc = "loadEffect"
     \/ pc = "saveEffect" /\ last.op = "load"

Malformed(st) ==
  \/ st.kind \in {"garbage", "object"}
  \/ /\ st.kind = "array"
     /\ \E i \in 1..Len(st.value) : st.value[i].createdAt = Missing

(* C11: loading malformed persisted data (unparseable, not an array, or an *)
(* array whose elements lack the Target fields) yields the empty           *)
(* collection and exactly one load-error notification.                     *)
C11_MalformedLoadFallsBack ==
  (last.op = "load" /\ Malformed(storage)) =>
    /\ queued = <<>>
    /\ targets = <<>>
    /\ toasts = <<LoadErrorToast>>

(* C15: no item of the collection, and no item the page wrote to storage,  *)
(* has an empty or all-blank text, items rehydrated at startup included.   *)
C15_NoBlankText ==
  /\ \A i \in 1..Len(targets) : ~Blank(targets[i].text)
  /\ persisted # <<>> =>
       \A i \in 1..Len(persisted[1]) : ~Blank(persisted[1][i].text)

(* C16: delete emits the "Target Removed" notification, naming the removed *)
(* item's text, only when an item matching id was found; with an id that   *)
(* is not in the collection it changes nothing and emits no notification.  *)
C16_DeleteToastOnlyIfFound ==
  last.op = "delete" =>
    IF HasId(before, last.id)
    THEN \E i \in 1..Len(before) :
           /\ before[i].id = last.id
           /\ toasts = <<TargetRemovedToast(before[i].text)>>
    ELSE /\ targets = before
         /\ toasts = <<>>

\* the page is starting: the mount effects or what they caused is pending
Starting == pc # "idle" /\ last.op \in {"mount", "load", "save", "render"}

(* C18: when storage holds a valid non-empty collection C at startup, it   *)
(* holds the serialization of C in every state of the startup sequence:    *)
(* no step of the startup changes the stored value.                        *)
C18_StartupKeepsStorage ==
  [][(Starting /\ storage.kind = "array" /\ storage.value # <<>>) =>
       storage' = storage]_vars

(* C20: toggle changes nothing but completed flags (length, order, id,     *)
(* text and createdAt of every item stay), and toggling the same id again  *)
(* gives back the collection as it was before.                             *)
C20_ToggleInvolution ==
  last.op = "toggle" =>
    /\ Len(targets) = Len(before)
    /\ \A i \in 1..Len(before) :
         /\ targets[i].id = before[i].id
         /\ targets[i].text = before[i].text
         /\ targets[i].createdAt = before[i].createdAt
         /\ DOMAIN targets[i] = DOMAIN before[i]
    /\ Toggled(targets, last.id) = before

C20_Witness ==
  /\ last.op = "toggle"
  /\ Len(before) = 3
  /\ targets # before
  /\ before[1].completed
  /\ ~targets[1].completed

(* ========================= properties of summary ======================== *)

Done(ts) == {i \in 1..Len(ts) : ts[i].completed}

(* C12: totalCount is the number of items, completedCount the number of    *)
(* completed items, completionPercentage the integer nearest to            *)
(* 100 * completedCount / totalCount (0 for the empty collection); so      *)
(* 0 <= completedCount <= totalCount, 0 <= completionPercentage <= 100,    *)
(* {0,0,0} on the empty collection and {2,4,50} on 2 completed of 4.       *)
C12_Summary ==
  LET sum == Summary(targets)
      n == Len(targets)
      c == Cardinality(Done(targets))
      p == sum.completionPercentage
  IN  /\ sum.totalCount = n
      /\ sum.completedCount = c
      /\ n = 0 => p = 0
      /\ n > 0 => 2 * p * n <= 200 * c + n /\ 200 * c + n < 2 * (p + 1) * n
      /\ 0 <= sum.completedCount /\ sum.completedCount <= sum.totalCount
      /\ 0 <= p /\ p <= 100
      /\ n = 0 => sum = [completedCount |-> 0, totalCount |-> 0,
                         completionPercentage |-> 0]
      /\ (n = 4 /\ c = 2) => sum = [completedCount |-> 2, totalCount |-> 4,
                                    completionPercentage |-> 50]

C12_Witness ==
  /\ last.op = "toggle"
  /\ Len(targets) = 4
  /\ Cardinality(Done(targets)) = 2
  /\ Summary(targets).completionPercentage = 50

(* C13: the captured install-prompt handle is consumed at most once: over  *)
(* any sequence of Install clicks, close clicks and platform outcomes,     *)
(* prompt() is called on one captured event at most one time, and an event *)
(* that has been used (its outcome delivered to every invocation that      *)
(* awaited it) is no longer retained.                                      *)
InFlight(h) == \E i \in 1..Len(calls) : calls[i].handle = h

C13_HandleUsedOnce ==
  \A h \in Handles :
    /\ prompts[h] <= 1
    /\ (prompts[h] > 0 /\ choice[h] # "pending" /\ ~InFlight(h))
         => installPrompt # h

(* C14: when the outcome of the platform's dialog reaches handleInstall,   *)
(* "accepted" clears the retained handle and hides the banner, while       *)
(* "dismissed" leaves the retained handle, the show flag and the banner as *)
(* they were at that moment; no other step clears a retained handle.       *)
C14_OnlyAcceptedClears ==
  [][ /\ \A i \in 1..MaxPrompts :
           InstallOutcome(i) =>
             IF choice[calls[i].handle] = "accepted"
             THEN installPrompt' = NoHandle /\ ~showPrompt' /\ ~banner'
             ELSE UNCHANGED <<installPrompt, showPrompt, banner>>
      /\ (installPrompt # NoHandle /\ installPrompt' = NoHandle)
           => (ilast'.op = "outcome" /\ ilast'.outcome = "accepted")
    ]_vars

C14_Witness ==
  /\ ilast.op = "outcome"
  /\ ilast.outcome = "dismissed"
  /\ installPrompt = ilast.handle
  /\ banner

(* C17: the banner is visible exactly when an event is retained and the    *)
(* show flag is set; the installability signal has its default prevented,  *)
(* stores the event and makes the banner visible; the close control hides  *)
(* the banner and keeps the retained event; a hidden banner becomes        *)
(* visible again only by a new installability signal.                      *)
C17_BannerProtocol ==
  [][ /\ banner' <=> (showPrompt' /\ installPrompt' # NoHandle)
      /\ HandleBeforeInstallPrompt =>
           /\ signals' \in prevented'
           /\ installPrompt' = signals'
           /\ banner'
      /\ HandleDismiss =>
           /\ ~banner'
           /\ installPrompt' = installPrompt
      /\ (~banner /\ banner') => HandleBeforeInstallPrompt
    ]_vars

C17_Witness ==
  /\ ilast.op = "dismiss"
  /\ installPrompt # NoHandle
  /\ ~showPrompt
  /\ ~banner

(* C19: at most one handleInstall invocation is in flight at any time: no  *)
(* Install click starts a second invocation while one is suspended at      *)
(* await prompt() or await userChoice.                                     *)
C19_OneInvocationInFlight == Len(calls) <= 1

====
